---- MODULE Spec2Model ----
(***************************************************************************)
(* Polygon / PolygonArray of spatialpandas/geometry/polygon.py: the ragged *)
(* buffer layout (coordinate buffer, inner offsets, outer offsets, null    *)
(* mask) and the length, area and intersects_bounds operations on it.      *)
(*                                                                         *)
(* Numbers.  Coordinates are integers.  A float64 result is held as an     *)
(* integer in half units (the value 2x stands for x): the shoelace sum of  *)
(* integer coordinates is an integer and area = sum / 2.0 is exact; a      *)
(* distance is sqrt rounded down to the half unit, exact whenever the      *)
(* distance is an integer.  An entry of a float result array is a record   *)
(* [nan, v]; NaN is the record with nan = TRUE.                            *)
(*                                                                         *)
(* Indexing.  Python indices are 0-based; At(s, i) is s[i] and             *)
(* Slice(s, a, b) is s[a:b].  The coordinate buffer is a sequence of       *)
(* points <<x, y>> and the inner offsets count points.                     *)
(***************************************************************************)
EXTENDS Integers, Sequences, FiniteSets, TLC

VARIABLES
    pc,      \* "new", "polygon", "array" or "ValueError"
    poly,    \* the Polygon built, its buffer and inner offsets
    data,    \* the PolygonArray built, its buffers, null mask and self.offsets
    given,   \* the nested list the constructor was handed (history)
    out      \* the last call and what it returned

vars == <<pc, poly, data, given, out>>

----------------------------------------------------------------------------
(* Bounds of the model *)

MaxPolys == 2       \* polygons in a PolygonArray
MaxRings == 2       \* rings of a Polygon built from a raw ring list
MaxHoles == 1       \* interiors of a shapely polygon
MaxChunks == 2      \* entries of self.offsets
MaxInds == 2        \* entries of inds

----------------------------------------------------------------------------
(* Arithmetic and sequences *)

Abs(x) == IF x < 0 THEN -x ELSE x

At(s, i) == s[i + 1]

Slice(s, a, b) == SubSeq(s, a + 1, b)

Reverse(s) == [i \in 1..Len(s) |-> s[Len(s) + 1 - i]]

Fl(x) == [nan |-> FALSE, v |-> x]

NaN == [nan |-> TRUE, v |-> 0]

\* float literal n.0 in half units
Lit(n) == 2 * n

ISqrt(n) == CHOOSE r \in 0..n : r * r <= n /\ (r + 1) * (r + 1) > n

\* Euclidean distance of two points, in half units
Dist(p, q) ==
    ISqrt(4 * ((p[1] - q[1]) * (p[1] - q[1]) + (p[2] - q[2]) * (p[2] - q[2])))

SeqSum(s) ==
    LET acc[i \in 0..Len(s)] == IF i = 0 THEN 0 ELSE acc[i - 1] + s[i]
    IN  acc[Len(s)]

Concat(ss) ==
    LET acc[i \in 0..Len(ss)] == IF i = 0 THEN <<>> ELSE acc[i - 1] \o ss[i]
    IN  acc[Len(ss)]

\* CSR offsets of a list of lengths: <<0, l1, l1 + l2, ...>>
Cumulative(lens) ==
    LET acc[i \in 0..Len(lens)] == IF i = 0 THEN 0 ELSE acc[i - 1] + lens[i]
    IN  [i \in 1..Len(lens) + 1 |-> acc[i - 1]]

\* all sequences over S of length lo..hi
SeqsOf(S, lo, hi) == UNION {[1..n -> S] : n \in lo..hi}

----------------------------------------------------------------------------
(* Geometric kernels (spatialpandas.geometry._algorithms) *)

\* ring i of the rings delimited by value_offsets
RingOf(values, value_offsets, i) ==
    Slice(values, At(value_offsets, i), At(value_offsets, i + 1))

NumRings(value_offsets) ==
    IF Len(value_offsets) = 0 THEN 0 ELSE Len(value_offsets) - 1

\* perimeter of one ring with the closing edge; a ring of < 3 points is degenerate
RingLength(pts) ==
    LET n == Len(pts)
        next(i) == IF i = n THEN 1 ELSE i + 1
    IN  IF n < 3 THEN 0
        ELSE SeqSum([i \in 1..n |-> Dist(pts[i], pts[next(i)])])

\* shoelace sum of one ring = twice its signed area, counter-clockwise positive
Shoelace(pts) ==
    LET n == Len(pts)
        next(i) == IF i = n THEN 1 ELSE i + 1
    IN  IF n < 3 THEN 0
        ELSE SeqSum([i \in 1..n |->
                 pts[i][1] * pts[next(i)][2] - pts[next(i)][1] * pts[i][2]])

compute_line_length(values, value_offsets) ==
    SeqSum([r \in 1..NumRings(value_offsets) |->
               RingLength(RingOf(values, value_offsets, r - 1))])

compute_area(values, value_offsets) ==
    SeqSum([r \in 1..NumRings(value_offsets) |->
               IF r = 1
               THEN Shoelace(RingOf(values, value_offsets, 0))
               ELSE -Abs(Shoelace(RingOf(values, value_offsets, r - 1)))])

\* sign of the turn a -> b -> c
Turn(a, b, c) ==
    LET d == (b[1] - a[1]) * (c[2] - a[2]) - (b[2] - a[2]) * (c[1] - a[1])
    IN  IF d > 0 THEN 1 ELSE IF d < 0 THEN -1 ELSE 0

InBox(a, b, c) ==
    /\ (IF a[1] < b[1] THEN a[1] ELSE b[1]) <= c[1]
    /\ c[1] <= (IF a[1] < b[1] THEN b[1] ELSE a[1])
    /\ (IF a[2] < b[2] THEN a[2] ELSE b[2]) <= c[2]
    /\ c[2] <= (IF a[2] < b[2] THEN b[2] ELSE a[2])

segments_intersect(a, b, c, d) ==
    LET t1 == Turn(a, b, c)
        t2 == Turn(a, b, d)
        t3 == Turn(c, d, a)
        t4 == Turn(c, d, b)
    IN  \/ t1 # t2 /\ t3 # t4
        \/ t1 = 0 /\ InBox(a, b, c)
        \/ t2 = 0 /\ InBox(a, b, d)
        \/ t3 = 0 /\ InBox(c, d, a)
        \/ t4 = 0 /\ InBox(c, d, b)

PointInRect(x0, y0, x1, y1, p) ==
    x0 <= p[1] /\ p[1] <= x1 /\ y0 <= p[2] /\ p[2] <= y1

\* the edge a-b crosses, touches or lies within the rectangle
SegmentHitsRect(x0, y0, x1, y1, a, b) ==
    \/ PointInRect(x0, y0, x1, y1, a)
    \/ PointInRect(x0, y0, x1, y1, b)
    \/ segments_intersect(a, b, <<x0, y0>>, <<x1, y0>>)
    \/ segments_intersect(a, b, <<x1, y0>>, <<x1, y1>>)
    \/ segments_intersect(a, b, <<x1, y1>>, <<x0, y1>>)
    \/ segments_intersect(a, b, <<x0, y1>>, <<x0, y0>>)

\* p strictly inside the ring: an odd number of edges cross the ray to the right
point_in_ring(p, pts) ==
    LET n == Len(pts)
        next(i) == IF i = n THEN 1 ELSE i + 1
        crosses(i) ==
            LET a == pts[i]
                b == pts[next(i)]
                lo == IF a[2] <= b[2] THEN a ELSE b
                hi == IF a[2] <= b[2] THEN b ELSE a
            IN  /\ (a[2] > p[2]) # (b[2] > p[2])
                /\ Turn(lo, hi, p) > 0
    IN  Cardinality({i \in 1..n : crosses(i)}) % 2 = 1

\* the test of one polygon, rings [start0, stop0) of offsets1
polygon_intersects_bounds(x0, y0, x1, y1, values, start0, stop0, offsets1) ==
    \/ \E r \in start0..stop0 - 1 :
          LET pts == RingOf(values, offsets1, r)
              n == Len(pts)
          IN  \E i \in 1..n :
                 SegmentHitsRect(x0, y0, x1, y1, pts[i],
                                 pts[IF i = n THEN 1 ELSE i + 1])
    \/ /\ start0 < stop0
       /\ point_in_ring(<<x0, y0>>, RingOf(values, offsets1, start0))

polygons_intersect_bounds(x0, y0, x1, y1, values, start_offsets0, stop_offsets0, offsets1, result) ==
    [i \in 1..Len(result) |->
        polygon_intersects_bounds(x0, y0, x1, y1, values,
                                  start_offsets0[i], stop_offsets0[i], offsets1)]

----------------------------------------------------------------------------
(* Polygon: one element, a ring buffer *)

\* cls(shape_parts): the rings flattened into one buffer and its inner offsets
Polygon(rings) ==
    [buffer_values |-> Concat(rings),
     buffer_inner_offsets |-> Cumulative([i \in 1..Len(rings) |-> Len(rings[i])])]

NoPolygon == Polygon(<<>>)

\* sg.polygon.orient: exterior counter-clockwise, interiors clockwise
orient_shape(shape) ==
    [typ |-> shape.typ,
     exterior |-> IF Shoelace(shape.exterior) >= 0 THEN shape.exterior
                  ELSE Reverse(shape.exterior),
     interiors |-> [i \in 1..Len(shape.interiors) |->
                      IF Shoelace(shape.interiors[i]) <= 0 THEN shape.interiors[i]
                      ELSE Reverse(shape.interiors[i])]]

\* faulty variant: the isinstance test is missing
shapely_to_coordinates_unchecked(shape, orient) ==
    LET sh == IF orient THEN orient_shape(shape) ELSE shape
    IN  [raised |-> FALSE, polygon_coords |-> <<sh.exterior>> \o sh.interiors]

\* Polygon._shapely_to_coordinates: the ring list, or ValueError
shapely_to_coordinates(shape, orient) ==
    IF shape.typ = "Polygon"
    THEN LET sh == IF orient THEN orient_shape(shape) ELSE shape
         IN  [raised |-> FALSE, polygon_coords |-> <<sh.exterior>> \o sh.interiors]
    ELSE [raised |-> TRUE, polygon_coords |-> <<>>]

\* Polygon.from_shapely
from_shapely(shape, orient) ==
    LET shape_parts == shapely_to_coordinates(shape, orient)
    IN  IF shape_parts.raised
        THEN [raised |-> TRUE, value |-> NoPolygon]
        ELSE [raised |-> FALSE, value |-> Polygon(shape_parts.polygon_coords)]

\* faulty variant: only the exterior ring is handed to the kernel
Polygon_length_first_ring(self) ==
    compute_line_length(self.buffer_values,
                        Slice(self.buffer_inner_offsets, 0,
                              IF Len(self.buffer_inner_offsets) > 2 THEN 2
                              ELSE Len(self.buffer_inner_offsets)))

\* faulty variant: the inner offsets are dropped and the buffer read as one ring
Polygon_length_one_ring(self) ==
    compute_line_length(self.buffer_values, <<0, Len(self.buffer_values)>>)

Polygon_length(self) ==
    compute_line_length(self.buffer_values, self.buffer_inner_offsets)

\* faulty variant: only the exterior ring is handed to the kernel
Polygon_area_no_holes(self) ==
    compute_area(self.buffer_values,
                 Slice(self.buffer_inner_offsets, 0,
                       IF Len(self.buffer_inner_offsets) > 2 THEN 2
                       ELSE Len(self.buffer_inner_offsets)))

\* faulty variant: the inner offsets are dropped and the buffer read as one ring
Polygon_area_one_ring(self) ==
    compute_area(self.buffer_values, <<0, Len(self.buffer_values)>>)

Polygon_area(self) ==
    compute_area(self.buffer_values, self.buffer_inner_offsets)

\* faulty variant: bounds unpacked as x0, x1, y0, y1
Polygon_intersects_bounds_unpack(self, bounds) ==
    LET result == <<FALSE>>
        offsets1 == self.buffer_inner_offsets
        start_offsets0 == <<0>>
        stop_offsets0 == <<Len(offsets1) - 1>>
    IN  polygons_intersect_bounds(bounds[1], bounds[3], bounds[2], bounds[4],
            self.buffer_values, start_offsets0, stop_offsets0, offsets1,
            result)[1]

Polygon_intersects_bounds(self, bounds) ==
    LET result == <<FALSE>>
        offsets1 == self.buffer_inner_offsets
        start_offsets0 == <<0>>
        stop_offsets0 == <<Len(offsets1) - 1>>
    IN  polygons_intersect_bounds(bounds[1], bounds[2], bounds[3], bounds[4],
            self.buffer_values, start_offsets0, stop_offsets0, offsets1,
            result)[1]

----------------------------------------------------------------------------
(* PolygonArray: the collection *)

Null == [null |-> TRUE, rings |-> <<>>]

Item(rings) == [null |-> FALSE, rings |-> rings]

\* cls(list): coordinate buffer, inner and outer offsets, null mask; chunk_offsets
\* becomes self.offsets
PolygonArray(items, chunk_offsets) ==
    LET all == Concat([i \in 1..Len(items) |-> items[i].rings])
    IN  [buffer_values |-> Concat(all),
         offsets0 |-> Cumulative([i \in 1..Len(items) |-> Len(items[i].rings)]),
         offsets1 |-> Cumulative([i \in 1..Len(all) |-> Len(all[i])]),
         missing |-> [i \in 1..Len(items) |-> items[i].null],
         offsets |-> chunk_offsets]

NoArray == PolygonArray(<<>>, <<0>>)

\* len(self)
Size(self) == Len(self.missing)

\* self[k]: a view of the shared buffer with the element's own ring offsets
GetItem(self, k) ==
    [buffer_values |-> self.buffer_values,
     buffer_inner_offsets |->
         Slice(self.offsets1, At(self.offsets0, k), At(self.offsets0, k + 1) + 1)]

\* PolygonArray.from_geopandas
from_geopandas(ga, orient, chunk_offsets) ==
    LET parts == [i \in 1..Len(ga) |-> shapely_to_coordinates(ga[i], orient)]
    IN  IF \E i \in 1..Len(ga) : parts[i].raised
        THEN [raised |-> TRUE, value |-> NoArray]
        ELSE [raised |-> FALSE,
              value |-> PolygonArray(
                  [i \in 1..Len(ga) |-> Item(parts[i].polygon_coords)],
                  chunk_offsets)]

Kernel(fn, values, value_offsets) ==
    IF fn = "compute_line_length"
    THEN compute_line_length(values, value_offsets)
    ELSE compute_area(values, value_offsets)

\* the ring offsets the driver hands to the kernel for element i
ElementOffsets(value_offsets, i) ==
    Slice(value_offsets[2], At(value_offsets[1], i),
          At(value_offsets[1], i + 1) + 1)

\* _geometry_map_nested2: one kernel call per element that is not missing, stored
\* at result[i + result_offset]; a store outside result raises IndexError and the
\* property then returns nothing.
\* acc.calls[i + 1] counts the kernel calls made for element i.
geometry_map_nested2(fn, acc, result_offset, values, value_offsets, missing) ==
    LET n == Len(value_offsets[1]) - 1
        live == {i \in 0..n - 1 : ~At(missing, i)}
        src(j) == {i \in live : i + result_offset = j}
    IN  [raised |-> acc.raised
                    \/ \E i \in live : i + result_offset >= Len(acc.result),
         result |-> [j1 \in 1..Len(acc.result) |->
                       IF src(j1 - 1) = {} THEN acc.result[j1]
                       ELSE LET i == CHOOSE i \in src(j1 - 1) : TRUE
                            IN  Fl(Kernel(fn, values,
                                          ElementOffsets(value_offsets, i)))],
         calls |-> [i1 \in 1..Len(acc.calls) |->
                       IF (i1 - 1) \in live THEN acc.calls[i1] + 1
                       ELSE acc.calls[i1]]]

\* the loop of PolygonArray.length and PolygonArray.area over self.offsets
MapOverOffsets(fn, self) ==
    LET start == [raised |-> FALSE,
                  result |-> [i \in 1..Size(self) |-> NaN],
                  calls |-> [i \in 1..Size(self) |-> 0]]
        run[c \in 0..Len(self.offsets)] ==
            IF c = 0 THEN start
            ELSE geometry_map_nested2(fn, run[c - 1], self.offsets[c],
                     self.buffer_values, <<self.offsets0, self.offsets1>>,
                     self.missing)
    IN  run[Len(self.offsets)]

PolygonArray_length(self) == MapOverOffsets("compute_line_length", self)

PolygonArray_area(self) == MapOverOffsets("compute_area", self)

NoInds == [none |-> TRUE, idx |-> <<>>]

Inds(s) == [none |-> FALSE, idx |-> s]

\* faulty variant: inds selects the starts but not the stops
PolygonArray_intersects_bounds_stops(self, bounds, inds) ==
    LET offsets0 == self.offsets0
        offsets1 == self.offsets1
        all_start == Slice(offsets0, 0, Len(offsets0) - 1)
        all_stop == Slice(offsets0, 1, Len(offsets0))
        start_offsets0 == IF inds.none THEN all_start
                          ELSE [j \in 1..Len(inds.idx) |-> At(all_start, inds.idx[j])]
        stop_offsets0 == IF inds.none THEN all_stop
                         ELSE [j \in 1..Len(inds.idx) |->
                                 all_stop[IF j <= Len(all_stop) THEN j
                                          ELSE Len(all_stop)]]
        result == [j \in 1..Len(start_offsets0) |-> FALSE]
    IN  polygons_intersect_bounds(bounds[1], bounds[2], bounds[3], bounds[4],
            self.buffer_values, start_offsets0, stop_offsets0, offsets1, result)

\* faulty variant: the two slices of offsets0 are exchanged
PolygonArray_intersects_bounds_swapped(self, bounds, inds) ==
    LET offsets0 == self.offsets0
        offsets1 == self.offsets1
        all_start == Slice(offsets0, 1, Len(offsets0))
        all_stop == Slice(offsets0, 0, Len(offsets0) - 1)
        start_offsets0 == IF inds.none THEN all_start
                          ELSE [j \in 1..Len(inds.idx) |-> At(all_start, inds.idx[j])]
        stop_offsets0 == IF inds.none THEN all_stop
                         ELSE [j \in 1..Len(inds.idx) |-> At(all_stop, inds.idx[j])]
        result == [j \in 1..Len(start_offsets0) |-> FALSE]
    IN  polygons_intersect_bounds(bounds[1], bounds[2], bounds[3], bounds[4],
            self.buffer_values, start_offsets0, stop_offsets0, offsets1, result)

\* faulty variant: every ring range starts at ring 0
PolygonArray_intersects_bounds_from_zero(self, bounds, inds) ==
    LET offsets0 == self.offsets0
        offsets1 == self.offsets1
        all_stop == Slice(offsets0, 1, Len(offsets0))
        stop_offsets0 == IF inds.none THEN all_stop
                         ELSE [j \in 1..Len(inds.idx) |-> At(all_stop, inds.idx[j])]
        start_offsets0 == [j \in 1..Len(stop_offsets0) |-> 0]
        result == [j \in 1..Len(start_offsets0) |-> FALSE]
    IN  polygons_intersect_bounds(bounds[1], bounds[2], bounds[3], bounds[4],
            self.buffer_values, start_offsets0, stop_offsets0, offsets1, result)

PolygonArray_intersects_bounds(self, bounds, inds) ==
    LET offsets0 == self.offsets0
        offsets1 == self.offsets1
        all_start == Slice(offsets0, 0, Len(offsets0) - 1)
        all_stop == Slice(offsets0, 1, Len(offsets0))
        start_offsets0 == IF inds.none THEN all_start
                          ELSE [j \in 1..Len(inds.idx) |-> At(all_start, inds.idx[j])]
        stop_offsets0 == IF inds.none THEN all_stop
                         ELSE [j \in 1..Len(inds.idx) |-> At(all_stop, inds.idx[j])]
        result == [j \in 1..Len(start_offsets0) |-> FALSE]
    IN  polygons_intersect_bounds(bounds[1], bounds[2], bounds[3], bounds[4],
            self.buffer_values, start_offsets0, stop_offsets0, offsets1, result)

----------------------------------------------------------------------------
(* Inputs *)

\* the square of the documentation, vertices in the order listed there
Square == <<<<0, 0>>, <<0, 2>>, <<2, 2>>, <<2, 0>>, <<0, 0>>>>

UnitSquare == <<<<0, 0>>, <<1, 0>>, <<1, 1>>, <<0, 1>>, <<0, 0>>>>

BigSquare == <<<<0, 0>>, <<4, 0>>, <<4, 4>>, <<0, 4>>, <<0, 0>>>>

InnerSquare == <<<<1, 1>>, <<1, 3>>, <<3, 3>>, <<3, 1>>, <<1, 1>>>>

\* a 3-4-5 triangle whose closing edge is not stored
Triangle == <<<<0, 0>>, <<4, 0>>, <<4, 3>>>>

\* degenerate rings: two points, one point, no point
Segment == <<<<0, 0>>, <<3, 4>>>>

OnePoint == <<<<1, 1>>>>

EmptyRing == <<>>

RingSet == {Square, UnitSquare, Triangle, Segment, OnePoint, EmptyRing}

IsDegenerate(pts) == Len(pts) < 3

\* shapes a shapely / geopandas source hands over
Shape(typ, exterior, interiors) ==
    [typ |-> typ, exterior |-> exterior, interiors |-> interiors]

PolygonShapes ==
    {Shape("Polygon", e, h) :
        e \in {Square, BigSquare},
        h \in SeqsOf({UnitSquare, InnerSquare}, 0, MaxHoles)}

OtherShapes == {Shape("Point", <<>>, <<>>), Shape("LineString", <<>>, <<>>)}

ShapeSet == PolygonShapes \cup OtherShapes

\* shapes of a geopandas array
GaShapes ==
    {Shape("Polygon", Square, <<>>), Shape("Polygon", Square, <<UnitSquare>>),
     Shape("Polygon", BigSquare, <<InnerSquare>>), Shape("Point", <<>>, <<>>)}

\* entries of a raw nested list handed to PolygonArray
ItemSet ==
    {Null, Item(<<>>), Item(<<Square>>), Item(<<BigSquare, InnerSquare>>),
     Item(<<Triangle, Segment>>)}

BoundsSet ==
    {<<0, 0, 2, 2>>, <<-1, -1, 5, 5>>, <<2, 2, 2, 2>>, <<1, 1, 1, 1>>,
     <<3, 3, 4, 4>>, <<2, 1, 3, 2>>, <<0, 2, 2, 3>>, <<5, 0, 6, 1>>}

\* self.offsets of an array of n polygons: the start of each chunk
ChunkOffsets(n) ==
    {s \in SeqsOf(0..n, 1, MaxChunks) :
        /\ s[1] = 0
        /\ \A i \in 1..Len(s) - 1 : s[i] <= s[i + 1]}

IndsSet(n) == {NoInds} \cup {Inds(s) : s \in SeqsOf(0..n - 1, 0, MaxInds)}

----------------------------------------------------------------------------
(* State machine *)

Init ==
    /\ pc = "new"
    /\ poly = NoPolygon
    /\ data = NoArray
    /\ given = <<>>
    /\ out = [op |-> "none"]

\* no call is in progress: the last result, if any, was taken by the caller
Idle ==
    out.op \in {"none", "from_shapely", "Polygon", "from_geopandas", "PolygonArray"}

\* Polygon.from_shapely(shape, orient)
FromShapely ==
    /\ pc = "new"
    /\ \E shape \in ShapeSet, orient \in BOOLEAN :
          LET r == from_shapely(shape, orient)
          IN  /\ pc' = IF r.raised THEN "ValueError" ELSE "polygon"
              /\ poly' = r.value
              /\ given' = shapely_to_coordinates(shape, orient).polygon_coords
              /\ out' = [op |-> "from_shapely", shape |-> shape,
                         orient |-> orient, raised |-> r.raised]
    /\ UNCHANGED data

\* Polygon(rings) from a raw ring list
NewPolygon ==
    /\ pc = "new"
    /\ \E rings \in SeqsOf(RingSet, 0, MaxRings) :
          /\ poly' = Polygon(rings)
          /\ given' = rings
          /\ out' = [op |-> "Polygon", rings |-> rings]
    /\ pc' = "polygon"
    /\ UNCHANGED data

PolygonLength ==
    /\ pc = "polygon"
    /\ Idle
    /\ out' = [op |-> "Polygon.length", result |-> Polygon_length(poly)]
    /\ UNCHANGED <<pc, poly, data, given>>

PolygonArea ==
    /\ pc = "polygon"
    /\ Idle
    /\ out' = [op |-> "Polygon.area", result |-> Polygon_area(poly)]
    /\ UNCHANGED <<pc, poly, data, given>>

PolygonIntersectsBounds ==
    /\ pc = "polygon"
    /\ Idle
    /\ \E bounds \in BoundsSet :
          out' = [op |-> "Polygon.intersects_bounds", bounds |-> bounds,
                  result |-> Polygon_intersects_bounds(poly, bounds)]
    /\ UNCHANGED <<pc, poly, data, given>>

\* PolygonArray.from_geopandas(ga, orient)
FromGeopandas ==
    /\ pc = "new"
    /\ \E ga \in SeqsOf(GaShapes, 0, MaxPolys), orient \in BOOLEAN :
          \E chunk_offsets \in ChunkOffsets(Len(ga)) :
             LET r == from_geopandas(ga, orient, chunk_offsets)
             IN  /\ pc' = IF r.raised THEN "ValueError" ELSE "array"
                 /\ data' = r.value
                 /\ given' = IF r.raised THEN <<>>
                              ELSE [i \in 1..Len(ga) |->
                                      Item(shapely_to_coordinates(ga[i], orient)
                                               .polygon_coords)]
                 /\ out' = [op |-> "from_geopandas", ga |-> ga,
                            orient |-> orient, raised |-> r.raised]
    /\ UNCHANGED poly

\* PolygonArray(items) from a raw nested list
NewPolygonArray ==
    /\ pc = "new"
    /\ \E items \in SeqsOf(ItemSet, 0, MaxPolys) :
          \E chunk_offsets \in ChunkOffsets(Len(items)) :
             /\ data' = PolygonArray(items, chunk_offsets)
             /\ given' = items
             /\ out' = [op |-> "PolygonArray", items |-> items]
    /\ pc' = "array"
    /\ UNCHANGED poly

ArrayLength ==
    /\ pc = "array"
    /\ Idle
    /\ LET r == PolygonArray_length(data)
       IN  out' = [op |-> "PolygonArray.length", fn |-> "compute_line_length",
                   raised |-> r.raised,
                   result |-> IF r.raised THEN <<>> ELSE r.result,
                   calls |-> r.calls]
    /\ UNCHANGED <<pc, poly, data, given>>

ArrayArea ==
    /\ pc = "array"
    /\ Idle
    /\ LET r == PolygonArray_area(data)
       IN  out' = [op |-> "PolygonArray.area", fn |-> "compute_area",
                   raised |-> r.raised,
                   result |-> IF r.raised THEN <<>> ELSE r.result,
                   calls |-> r.calls]
    /\ UNCHANGED <<pc, poly, data, given>>

ArrayIntersectsBounds ==
    /\ pc = "array"
    /\ Idle
    /\ \E bounds \in BoundsSet, inds \in IndsSet(Size(data)) :
          out' = [op |-> "PolygonArray.intersects_bounds", bounds |-> bounds,
                  inds |-> inds,
                  result |-> PolygonArray_intersects_bounds(data, bounds, inds)]
    /\ UNCHANGED <<pc, poly, data, given>>

\* the caller takes the value a property or method returned
Return ==
    /\ ~Idle
    /\ out' = [op |-> "none"]
    /\ UNCHANGED <<pc, poly, data, given>>

Next ==
    \/ FromShapely
    \/ NewPolygon
    \/ PolygonLength
    \/ PolygonArea
    \/ PolygonIntersectsBounds
    \/ FromGeopandas
    \/ NewPolygonArray
    \/ ArrayLength
    \/ ArrayArea
    \/ Return

Spec == Init /\ [][Next]_vars

\* the collection with its bounds test; self.offsets is not read by it
FromGeopandasOneChunk ==
    /\ FromGeopandas
    /\ data'.offsets = <<0>>

NewPolygonArrayOneChunk ==
    /\ NewPolygonArray
    /\ data'.offsets = <<0>>

NextBounds ==
    \/ FromGeopandasOneChunk
    \/ NewPolygonArrayOneChunk
    \/ ArrayIntersectsBounds
    \/ Return

SpecBounds == Init /\ [][NextBounds]_vars

----------------------------------------------------------------------------
(* Reference definitions used by the properties *)

Samples == 4        \* points tested along an edge are a + (b - a) * k / Samples

IsReduction == out.op \in {"PolygonArray.length", "PolygonArray.area"}

IsNull(k) == At(data.missing, k)

Indices == 0..Size(data) - 1

\* Polygon.length / Polygon.area of element k alone
ElementValue(k) ==
    IF out.op = "PolygonArray.length" THEN Polygon_length(GetItem(data, k))
    ELSE Polygon_area(GetItem(data, k))

\* ring r (0-based) of a Polygon, read back from its buffer
StoredRing(p, r) == RingOf(p.buffer_values, p.buffer_inner_offsets, r)

\* sum of the distances between consecutive points plus the closing edge
Perimeter(pts) ==
    IF Len(pts) = 0 THEN 0
    ELSE SeqSum([i \in 1..Len(pts) - 1 |-> Dist(pts[i], pts[i + 1])])
         + Dist(pts[Len(pts)], pts[1])

\* twice the signed area by the trapezoid form of the shoelace formula
SignedArea(pts) ==
    IF Len(pts) = 0 THEN 0
    ELSE SeqSum([i \in 1..Len(pts) |->
             LET a == pts[i]
                 b == pts[IF i = Len(pts) THEN 1 ELSE i + 1]
             IN  (a[1] - b[1]) * (a[2] + b[2])])

ExteriorMinusHoles(rings) ==
    SeqSum([i \in 1..Len(rings) |->
               IF i = 1 THEN SignedArea(rings[1]) ELSE -Abs(SignedArea(rings[i]))])

\* the documentation's square, as listed or re-oriented
IsSquare(rings) == rings \in {<<Square>>, <<Reverse(Square)>>}

IsSquareWithHole(rings) ==
    rings \in {<<a, b>> : a \in {Square, Reverse(Square)},
                          b \in {UnitSquare, Reverse(UnitSquare)}}

Points(p) == {p.buffer_values[i] : i \in 1..Len(p.buffer_values)}

\* some sampled point of some edge of some ring lies in the rectangle
EdgePointInRect(p, b) ==
    \E r \in 0..NumRings(p.buffer_inner_offsets) - 1 :
       LET pts == StoredRing(p, r)
       IN  \E i \in 1..Len(pts), k \in 0..Samples :
              LET a == pts[i]
                  c == pts[IF i = Len(pts) THEN 1 ELSE i + 1]
                  x == Samples * a[1] + k * (c[1] - a[1])
                  y == Samples * a[2] + k * (c[2] - a[2])
              IN  /\ Samples * b[1] <= x /\ x <= Samples * b[3]
                  /\ Samples * b[2] <= y /\ y <= Samples * b[4]

\* every corner of the rectangle is on the inner side of every exterior edge
RectInsideExterior(p, b) ==
    /\ NumRings(p.buffer_inner_offsets) >= 1
    /\ LET pts == StoredRing(p, 0)
           side == IF SignedArea(pts) > 0 THEN 1 ELSE -1
       IN  /\ SignedArea(pts) # 0
           /\ \A i \in 1..Len(pts) :
                 \A c \in {<<b[1], b[2]>>, <<b[3], b[2]>>,
                           <<b[3], b[4]>>, <<b[1], b[4]>>} :
                    side * Turn(pts[i], pts[IF i = Len(pts) THEN 1 ELSE i + 1], c) >= 0

EnclosesBoundingBox(p, b) ==
    /\ Points(p) # {}
    /\ \A q \in Points(p) : PointInRect(b[1], b[2], b[3], b[4], q)

Shifts == {<<3, -2>>, <<-5, 7>>}

Translate(p, d) ==
    [buffer_values |-> [i \in 1..Len(p.buffer_values) |->
                           <<p.buffer_values[i][1] + d[1],
                             p.buffer_values[i][2] + d[2]>>],
     buffer_inner_offsets |-> p.buffer_inner_offsets]

TranslateBounds(b, d) == <<b[1] + d[1], b[2] + d[2], b[3] + d[1], b[4] + d[2]>>

Blank(rings) ==
    [i \in 1..Len(rings) |-> IF IsDegenerate(rings[i]) THEN <<>> ELSE rings[i]]

BlankItems(items) ==
    [i \in 1..Len(items) |-> [null |-> items[i].null, rings |-> Blank(items[i].rings)]]

SameRing(stored, ring, orient) ==
    stored = ring \/ (orient /\ stored = Reverse(ring))

\* the rings stored are the exterior, then the interiors in their order
StoredAsGiven(p, shape, orient) ==
    /\ NumRings(p.buffer_inner_offsets) = 1 + Len(shape.interiors)
    /\ SameRing(StoredRing(p, 0), shape.exterior, orient)
    /\ \A i \in 1..Len(shape.interiors) :
          SameRing(StoredRing(p, i), shape.interiors[i], orient)

----------------------------------------------------------------------------
(* Properties *)

C3_IndsSelectAndReorder ==
    out.op = "PolygonArray.intersects_bounds" =>
        LET full == PolygonArray_intersects_bounds(data, out.bounds, NoInds)
        IN  IF out.inds.none
            THEN Len(out.result) = Size(data)
            ELSE /\ Len(out.result) = Len(out.inds.idx)
                 /\ \A j \in 1..Len(out.inds.idx) :
                       out.result[j] = At(full, out.inds.idx[j])

C3_Witness ==
    /\ out.op = "PolygonArray.intersects_bounds"
    /\ ~out.inds.none
    /\ Len(out.inds.idx) = 2
    /\ out.inds.idx[1] > out.inds.idx[2]
    /\ out.result = <<TRUE, FALSE>>

\* C4: entry k of the batched intersects_bounds(bounds) is
\* Polygon.intersects_bounds(bounds) of element k.
C4_BatchEqualsElement ==
    (out.op = "PolygonArray.intersects_bounds" /\ out.inds.none) =>
        \A k \in Indices :
           At(out.result, k) = Polygon_intersects_bounds(GetItem(data, k), out.bounds)

C4_Witness ==
    /\ out.op = "PolygonArray.intersects_bounds"
    /\ out.inds.none
    /\ Size(data) = 2
    /\ NumRings(GetItem(data, 0).buffer_inner_offsets) = 2
    /\ out.result = <<FALSE, TRUE>>

C6_LengthAsStated ==
    out.op = "Polygon.length" =>
        /\ out.result = SeqSum([i \in 1..Len(given) |-> Perimeter(given[i])])
        /\ out.result >= 0
        /\ IsSquare(given) => out.result = Lit(8)

\* C6 amended: Polygon.length is the sum over every ring of at least 3 points of
\* its consecutive distances plus its closing edge (a shorter ring adds nothing);
\* it is >= 0; the square has length 8.0.
C6_LengthOfRings ==
    out.op = "Polygon.length" =>
        /\ out.result = SeqSum([i \in 1..Len(given) |->
                            IF Len(given[i]) < 3 THEN 0 ELSE Perimeter(given[i])])
        /\ out.result >= 0
        /\ IsSquare(given) => out.result = Lit(8)

C6_Witness ==
    /\ out.op = "Polygon.length"
    /\ given = <<Triangle, UnitSquare>>
    /\ out.result = Lit(16)

\* C7: Polygon.intersects_bounds is true when a point of an edge lies in the
\* rectangle, when the rectangle lies inside the exterior ring, and when the
\* rectangle encloses the polygon's bounding box; translating polygon and
\* rectangle together does not change it.
C7_IntersectsBounds ==
    out.op = "Polygon.intersects_bounds" =>
        /\ EdgePointInRect(poly, out.bounds) => out.result
        /\ RectInsideExterior(poly, out.bounds) => out.result
        /\ EnclosesBoundingBox(poly, out.bounds) => out.result
        /\ \A d \in Shifts :
              Polygon_intersects_bounds(Translate(poly, d),
                                        TranslateBounds(out.bounds, d)) = out.result

C7_Witness ==
    /\ out.op = "Polygon.intersects_bounds"
    /\ RectInsideExterior(poly, out.bounds)
    /\ ~EdgePointInRect(poly, out.bounds)
    /\ out.result

C9_DegenerateRingAddsZero ==
    /\ out.op = "Polygon.length" =>
          out.result = SeqSum([i \in 1..Len(given) |->
                           IF IsDegenerate(given[i]) THEN 0
                           ELSE Polygon_length(Polygon(<<given[i]>>))])
    /\ out.op = "Polygon.area" =>
          out.result = SeqSum([i \in 1..Len(given) |->
                           IF IsDegenerate(given[i]) THEN 0
                           ELSE IF i = 1 THEN Polygon_area(Polygon(<<given[i]>>))
                           ELSE -Abs(Polygon_area(Polygon(<<given[i]>>)))])
    /\ IsReduction =>
          LET r == MapOverOffsets(out.fn, PolygonArray(BlankItems(given), data.offsets))
          IN  /\ out.raised = r.raised
              /\ ~r.raised => out.result = r.result

C9_Witness ==
    /\ out.op = "Polygon.length"
    /\ given = <<Segment, Triangle>>
    /\ out.result = Lit(12)

\* C10: PolygonArray.intersects_bounds does not read the null mask, gives False
\* for every polygon whose ring range is empty, and leaves the buffer, the offsets
\* and the null mask as they were.
C10_EmptyRangeIsFalse ==
    [][(Idle /\ out'.op = "PolygonArray.intersects_bounds") =>
          /\ data' = data
          /\ out'.result = PolygonArray_intersects_bounds(
                 [data EXCEPT !.missing = [i \in 1..Size(data) |-> ~data.missing[i]]],
                 out'.bounds, out'.inds)
          /\ \A j \in 1..Len(out'.result) :
                LET k == IF out'.inds.none THEN j - 1 ELSE out'.inds.idx[j]
                IN  At(data.offsets0, k) = At(data.offsets0, k + 1)
                       => out'.result[j] = FALSE]_vars

C10_Witness ==
    /\ out.op = "PolygonArray.intersects_bounds"
    /\ out.inds.none
    /\ out.bounds = <<-1, -1, 5, 5>>
    /\ Size(data) = 2
    /\ IsNull(0)
    /\ out.result = <<FALSE, TRUE>>

====
